---- MODULE Spec2Model ----
(***************************************************************************)
(* Model of backend/app.py: the Flask backend of the blue-green rollout    *)
(* dashboard.  The state is the Redis key space the handlers write, the    *)
(* module-level connectivity flag, the position of every request that is   *)
(* being handled, and the last response sent.                              *)
(*                                                                         *)
(* Python values are encoded as follows.                                   *)
(*   None / a value      <<>> / <<v>>          (Nil, Some(v))              *)
(*   a dict              a function whose DOMAIN is its set of keys        *)
(*   a Redis value       the decimal string, as a sequence of digits       *)
(*   a Redis key         a sequence of tokens, "backend_views:" being one  *)
(*   a call's outcome    [raised |-> TRUE] or [raised |-> FALSE, value]    *)
(***************************************************************************)
EXTENDS Integers, Sequences, FiniteSets, TLC

VARIABLES
    store,            \* the Redis key space: key -> decimal string
    reachable,        \* whether a Redis call made now succeeds
    redis_connected,  \* app.py:36, the module-level flag
    threads,          \* per request thread: position and locals
    resp,             \* the last response sent (with the calls its request made)
    init_store,       \* the key space when the process started
    startup_ping,     \* whether the ping of app.py:56 succeeded
    info_count,       \* hostname -> /api/info requests accepted with the flag set
    faulted           \* whether any Redis call of a handler has raised

vars == <<store, reachable, redis_connected, threads, resp,
          init_store, startup_ping, info_count, faulted>>

\* ------------------------------------------------------------------ bounds

MaxPods == 2        \* longest pod list the cluster returns
MaxInfo == 2        \* /api/info requests accepted with the flag set

\* ------------------------------------------------------- Python encodings

Nil == <<>>
Some(v) == <<v>>

\* Python truthiness of an optional string: None and '' are both falsy.
Truthy(opt) == opt # Nil /\ opt[1] # ""

\* dict.get(key) and dict.get(key, default)
DictGet(d, k) == IF k \in DOMAIN d THEN Some(d[k]) ELSE Nil
DictGetDefault(d, k, default) == IF k \in DOMAIN d THEN d[k] ELSE default

Raised == [raised |-> TRUE]
Returned(v) == [raised |-> FALSE, value |-> v]

RECURSIVE SumSeq(_)
SumSeq(s) == IF s = <<>> THEN 0 ELSE Head(s) + SumSeq(Tail(s))

\* str(n) for n >= 0, as a sequence of digits
RECURSIVE Str(_)
Str(n) == IF n < 10 THEN <<n>> ELSE Append(Str(n \div 10), n % 10)

\* int(s) for a decimal string s
RECURSIVE Int10(_)
Int10(s) == IF Len(s) = 0 THEN 0
            ELSE 10 * Int10(SubSeq(s, 1, Len(s) - 1)) + s[Len(s)]

\* ---------------------------------------------------------- configuration

NAMESPACE == "default"
HashLabel == "rollouts-pod-template-hash"
ActiveServiceName == "frontend-service-active"
PreviewServiceName == "frontend-service-preview"
ActiveNodePort == 30080
PreviewNodePort == 30081

\* ------------------------------------------------ what the cluster returns

Hashes == {"", "h1", "h2"}

AppLabels == ("app" :> "nginx-bluegreen")

LabelSets == {AppLabels} \cup {AppLabels @@ (HashLabel :> h) : h \in Hashes}

\* The pod objects the list call can return; the label selector of the list
\* call guarantees that every one of them has a labels dict.
PodTemplates ==
    { [labels |-> AppLabels @@ (HashLabel :> "h1"), phase |-> "Running",
       container_statuses |-> Some(<<[ready |-> TRUE, restart_count |-> 0]>>)],
      [labels |-> AppLabels @@ (HashLabel :> "h2"), phase |-> "Running",
       container_statuses |-> Some(<<[ready |-> TRUE, restart_count |-> 1],
                                     [ready |-> FALSE, restart_count |-> 2]>>)],
      [labels |-> AppLabels @@ (HashLabel :> ""), phase |-> "Pending",
       container_statuses |-> Nil],
      [labels |-> AppLabels, phase |-> "Running",
       container_statuses |-> Some(<<[ready |-> TRUE, restart_count |-> 0]>>)] }

PodNames == <<"pod-1", "pod-2", "pod-3", "pod-4">>

MakePod(i, t) ==
    [name |-> PodNames[i], labels |-> t.labels, phase |-> t.phase,
     container_statuses |-> t.container_statuses,
     pod_ip |-> "10.0.0.1", node_name |-> "node-1"]

PodLists(max) ==
    UNION { { [i \in 1..n |-> MakePod(i, f[i])] : f \in [1..n -> PodTemplates] }
            : n \in 0..max }

\* A service object: its selector is None (a service without selector) or a dict.
Selectors(labelsets) == {Nil} \cup {Some(l) : l \in labelsets}
Services(labelsets) ==
    { [selector |-> s, cluster_ip |-> "10.96.0.1"] : s \in Selectors(labelsets) }

ListResults(max) == {Raised} \cup {Returned(l) : l \in PodLists(max)}
ServiceResults(labelsets) == {Raised} \cup {Returned(s) : s \in Services(labelsets)}

\* ------------------------------------------------------------- /api/pods

\* As ServiceHashes, with a try block for each service read: the active hash
\* survives a failing preview read.
ServiceHashesPerRead(active_res, preview_res) ==
    [active_hash |->
         IF active_res.raised \/ active_res.value.selector = Nil THEN Nil
         ELSE DictGet(active_res.value.selector[1], HashLabel),
     preview_hash |->
         IF active_res.raised \/ preview_res.raised THEN Nil
         ELSE IF preview_res.value.selector = Nil THEN Nil
         ELSE DictGet(preview_res.value.selector[1], HashLabel)]

\* app.py:168-182: both hashes start as None; a failing read leaves both None;
\* a selector of None makes .get raise, after the assignments before it.
ServiceHashes(active_res, preview_res) ==
    IF active_res.raised \/ preview_res.raised
    THEN [active_hash |-> Nil, preview_hash |-> Nil]
    ELSE IF active_res.value.selector = Nil
    THEN [active_hash |-> Nil, preview_hash |-> Nil]
    ELSE IF preview_res.value.selector = Nil
    THEN [active_hash |-> DictGet(active_res.value.selector[1], HashLabel),
          preview_hash |-> Nil]
    ELSE [active_hash |-> DictGet(active_res.value.selector[1], HashLabel),
          preview_hash |-> DictGet(preview_res.value.selector[1], HashLabel)]

\* app.py:188-195
Classify(active_hash, preview_hash, pod_hash) ==
    IF Truthy(active_hash) /\ pod_hash = active_hash[1] THEN "active"
    ELSE IF Truthy(preview_hash) /\ pod_hash = preview_hash[1] THEN "preview"
    ELSE "unknown"

\* app.py:199-202
Ready(pod) ==
    IF pod.container_statuses # Nil /\ pod.container_statuses[1] # <<>>
    THEN \A i \in 1..Len(pod.container_statuses[1]) :
             pod.container_statuses[1][i].ready
    ELSE FALSE

\* app.py:211
Restarts(pod) ==
    IF pod.container_statuses # Nil /\ pod.container_statuses[1] # <<>>
    THEN SumSeq([i \in 1..Len(pod.container_statuses[1]) |->
                    pod.container_statuses[1][i].restart_count])
    ELSE 0

\* app.py:185-213
PodInfo(pod, active_hash, preview_hash) ==
    LET pod_hash == DictGetDefault(pod.labels, HashLabel, "unknown")
    IN [name |-> pod.name,
        version |-> Classify(active_hash, preview_hash, pod_hash),
        status |-> pod.phase,
        ready |-> Ready(pod),
        ip |-> pod.pod_ip,
        node |-> pod.node_name,
        restarts |-> Restarts(pod),
        hash |-> pod_hash]

\* sum(1 for p in pod_info if p['version'] == v)
CountVersion(pod_info, v) ==
    Cardinality({i \in 1..Len(pod_info) : pod_info[i].version = v})

\* As Summary, counting the unknown pods in the total only.
SummaryNoUnknown(pod_info) ==
    [total |-> Len(pod_info),
     active |-> CountVersion(pod_info, "active"),
     preview |-> CountVersion(pod_info, "preview"),
     unknown |-> 0]

\* app.py:215-227
Summary(pod_info) ==
    [total |-> Len(pod_info),
     active |-> CountVersion(pod_info, "active"),
     preview |-> CountVersion(pod_info, "preview"),
     unknown |-> CountVersion(pod_info, "unknown")]

\* As PodsFallback, with the status /api/stats gives its exception.
PodsFallback500 ==
    [status |-> 500,
     body |-> [pods |-> <<>>,
               summary |-> [total |-> 0, active |-> 0, preview |-> 0, unknown |-> 0],
               error |-> "exception"]]

\* app.py:234-247
PodsFallback ==
    [status |-> 200,
     body |-> [pods |-> <<>>,
               summary |-> [total |-> 0, active |-> 0, preview |-> 0, unknown |-> 0],
               error |-> "exception"]]

\* app.py:155-247: the view function, given what the three cluster calls return.
\* The service reads are made only after the list call has returned.
get_pods(list_res, active_res, preview_res) ==
    IF list_res.raised THEN Returned(PodsFallback)
    ELSE LET h == ServiceHashes(active_res, preview_res)
             pod_info == [i \in 1..Len(list_res.value) |->
                             PodInfo(list_res.value[i], h.active_hash, h.preview_hash)]
         IN Returned([status |-> 200,
                      body |-> [pods |-> pod_info,
                                summary |-> Summary(pod_info),
                                debug |-> h]])

\* ----------------------------------------------------------- /api/service

\* app.py:282-294
ServiceFallback ==
    [status |-> 200,
     body |-> [activeService |-> [name |-> ActiveServiceName, nodePort |-> ActiveNodePort],
               previewService |-> [name |-> PreviewServiceName, nodePort |-> PreviewNodePort],
               note |-> "Error getting services"]]

\* As get_service, without the try block around the service reads.
get_service_unguarded(active_res, preview_res) ==
    IF active_res.raised \/ preview_res.raised THEN Raised
    ELSE IF active_res.value.selector = Nil \/ preview_res.value.selector = Nil
    THEN Raised
    ELSE Returned(ServiceFallback)

\* app.py:250-294
get_service(active_res, preview_res) ==
    IF active_res.raised \/ preview_res.raised THEN Returned(ServiceFallback)
    ELSE IF active_res.value.selector = Nil \/ preview_res.value.selector = Nil
    THEN Returned(ServiceFallback)
    ELSE Returned(
        [status |-> 200,
         body |-> [activeService |->
                       [name |-> ActiveServiceName,
                        selector |-> active_res.value.selector[1],
                        hash |-> DictGetDefault(active_res.value.selector[1], HashLabel, "none"),
                        clusterIP |-> active_res.value.cluster_ip,
                        nodePort |-> ActiveNodePort],
                   previewService |->
                       [name |-> PreviewServiceName,
                        selector |-> preview_res.value.selector[1],
                        hash |-> DictGetDefault(preview_res.value.selector[1], HashLabel, "none"),
                        clusterIP |-> preview_res.value.cluster_ip,
                        nodePort |-> PreviewNodePort]]])

\* ------------------------------------------------------------------ Flask

\* app.py:9: a view that returns is sent as JSON with its status; a view that
\* raises is answered with the framework's own 500 page, which is not JSON.
FlaskDispatch(r) ==
    IF r.raised
    THEN [status |-> 500, json |-> FALSE, body |-> [page |-> "Internal Server Error"]]
    ELSE [status |-> r.value.status, json |-> TRUE, body |-> r.value.body]

Respond(endpoint, r, calls) ==
    LET d == FlaskDispatch(r)
    IN [endpoint |-> endpoint, status |-> d.status, json |-> d.json,
        body |-> d.body, calls |-> calls]

Call(op, raised) == [op |-> op, raised |-> raised]

\* the list call, with the number of pods it returned
ListCall(res) ==
    [op |-> "list_namespaced_pod", raised |-> res.raised,
     items |-> IF res.raised THEN 0 ELSE Len(res.value)]

AnyRaised(calls) == \E i \in 1..Len(calls) : calls[i].raised

\* ------------------------------------------------------------------ Redis

TotalKey == <<"total_views">>
BackendPrefix == "backend_views:"

\* As BackendKey, with the host name left out of the key.
BackendKeyShared(hostname) == <<BackendPrefix, "backend">>

\* app.py:109, f'backend_views:{hostname}'
BackendKey(hostname) == <<BackendPrefix>> \o hostname

\* app.py:139, key.replace('backend_views:', ''): every occurrence is removed
StripPrefix(key) == SelectSeq(key, LAMBDA tok : tok # BackendPrefix)

\* INCR: the value is parsed, incremented and written back in one step;
\* an absent key becomes "1"
RedisIncr(s, k) ==
    IF k \in DOMAIN s THEN [s EXCEPT ![k] = Str(Int10(s[k]) + 1)]
    ELSE (k :> Str(1)) @@ s

\* GET: None for an absent key
RedisGet(s, k) == IF k \in DOMAIN s THEN Some(s[k]) ELSE Nil

\* KEYS 'backend_views:*'
RedisKeys(s) == {k \in DOMAIN s : Len(k) >= 1 /\ k[1] = BackendPrefix}

\* INFO server
RedisServerInfo == [redis_version |-> "7.2.4", uptime_in_days |-> 3]

\* ---------------------------------------------------------------- threads

Threads == {"t1", "t2"}
Hostnames == {<<"backend-a">>, <<"backend-b">>}

\* socket.gethostname() in the pod a thread runs in
Hostname(t) == IF t = "t2" THEN <<"backend-b">> ELSE <<"backend-a">>

REDIS_HOST == "localhost"
REDIS_PORT == 6379
REDIS_PASSWORD == ""
ENVIRONMENT == "dev"
BUILD_NUMBER == "local"
DEPLOYMENT_COLOR == "blue"

\* app.py:90-95
BaseRedisInfo ==
    [connected |-> redis_connected, host |-> REDIS_HOST, port |-> REDIS_PORT,
     passwordConfigured |-> (REDIS_PASSWORD # "")]

Idle ==
    [pc |-> "idle", calls |-> <<>>, redis_info |-> <<>>,
     total_views |-> <<>>, keys |-> {}, backend_views |-> <<>>]

\* ------------------------------------------------------------ /api/health

\* app.py:64-70
health ==
    Returned([status |-> 200,
              body |-> [status |-> "healthy", service |-> "backend",
                        redis |-> IF redis_connected THEN "connected"
                                  ELSE "disconnected"]])

\* ----------------------------------------------------------- /api/version

\* app.py:73-82
get_version(hostname) ==
    Returned([status |-> 200,
              body |-> [hostname |-> hostname, buildNumber |-> BUILD_NUMBER,
                        environment |-> ENVIRONMENT, timestamp |-> "now"]])

\* -------------------------------------------------------------- /api/info

\* As InfoNext, with a try block for each INCR: the second is made although
\* the first has failed.
InfoNextPerIncr(pc, raised) ==
    IF pc = "info_server" THEN "info_incr_total"
    ELSE IF pc = "info_incr_total" THEN "info_incr_backend"
    ELSE "return"

\* app.py:97-111: where get_info goes after the Redis call made at pc.
\* The INFO call has a try block of its own; the two INCR calls share one,
\* so a failing first INCR skips the second.
InfoNext(pc, raised) ==
    IF pc = "info_server" THEN "info_incr_total"
    ELSE IF pc = "info_incr_total"
    THEN (IF raised THEN "return" ELSE "info_incr_backend")
    ELSE "return"

\* app.py:113-120
InfoResponse(hostname, redis_info) ==
    Returned([status |-> 200,
              body |-> [environment |-> ENVIRONMENT, buildNumber |-> BUILD_NUMBER,
                        deploymentColor |-> DEPLOYMENT_COLOR, hostname |-> hostname,
                        namespace |-> NAMESPACE, redis |-> redis_info]])

\* ------------------------------------------------------------- /api/stats

\* As StatsDisconnected, with the status of the exception payload.
StatsDisconnected500 ==
    Returned([status |-> 500,
              body |-> [error |-> "Redis not connected", total_views |-> 0,
                        backend_views |-> <<>>]])

\* app.py:125-130
StatsDisconnected ==
    Returned([status |-> 200,
              body |-> [error |-> "Redis not connected", total_views |-> 0,
                        backend_views |-> <<>>]])

\* As StatsError, with the status every other failure is answered with.
StatsError200 ==
    Returned([status |-> 200,
              body |-> [error |-> "exception", total_views |-> 0,
                        backend_views |-> <<>>]])

\* app.py:147-152
StatsError ==
    Returned([status |-> 500,
              body |-> [error |-> "exception", total_views |-> 0,
                        backend_views |-> <<>>]])

\* app.py:142-146
StatsResponse(total_views, backend_views) ==
    Returned([status |-> 200,
              body |-> [total_views |-> Int10(total_views),
                        backend_views |-> backend_views,
                        last_updated |-> "now"]])

\* --------------------------------------------------------------- start-up

\* a counter about to gain a digit
InitialValues == {Str(9)}

AppKeys == {TotalKey} \cup {BackendKey(h) : h \in Hostnames}

\* The key spaces the process can find at start: any of the application's
\* keys may be present, holding a counter value.
InitStores == UNION { [ks -> InitialValues] : ks \in SUBSET AppKeys }

\* app.py:34-61: the flag is the outcome of the ping made once at import.
Boot(stores, reach) ==
    /\ reachable \in reach
    /\ startup_ping = reachable
    /\ redis_connected = startup_ping
    /\ store \in stores
    /\ init_store = store
    /\ threads = [t \in Threads |-> Idle]
    /\ resp = [endpoint |-> "none"]
    /\ info_count = [h \in Hostnames |-> 0]
    /\ faulted = FALSE

\* The store becomes unreachable or reachable again.
SetReachable ==
    /\ reachable' = ~reachable
    /\ UNCHANGED <<store, redis_connected, threads, resp, init_store,
                   startup_ping, info_count, faulted>>

\* ---------------------------------------------------------------- actions

\* the sum of f over the set S
RECURSIVE SumOver(_, _)
SumOver(f, S) ==
    IF S = {} THEN 0
    ELSE LET x == CHOOSE y \in S : TRUE IN f[x] + SumOver(f, S \ {x})

Total(f) == SumOver(f, DOMAIN f)

Finish(t, endpoint, r, calls) ==
    /\ resp' = Respond(endpoint, r, calls)
    /\ threads' = [threads EXCEPT ![t] = Idle]

HealthRequest ==
    /\ resp' = Respond("/api/health", health, <<>>)
    /\ UNCHANGED <<store, reachable, redis_connected, threads, init_store,
                   startup_ping, info_count, faulted>>

VersionRequest ==
    /\ \E h \in Hostnames : resp' = Respond("/api/version", get_version(h), <<>>)
    /\ UNCHANGED <<store, reachable, redis_connected, threads, init_store,
                   startup_ping, info_count, faulted>>

\* app.py:85-97: up to the first Redis call, or to the return when the flag
\* is not set (both `if redis_connected` blocks are skipped).
InfoRequest(t) ==
    /\ threads[t].pc = "idle"
    /\ IF redis_connected
       THEN /\ Total(info_count) < MaxInfo
            /\ threads' = [threads EXCEPT ![t].pc = "info_server",
                                          ![t].redis_info = BaseRedisInfo]
            /\ info_count' = [info_count EXCEPT ![Hostname(t)] = @ + 1]
            /\ UNCHANGED resp
       ELSE /\ Finish(t, "/api/info", InfoResponse(Hostname(t), BaseRedisInfo), <<>>)
            /\ UNCHANGED info_count
    /\ UNCHANGED <<store, reachable, redis_connected, init_store,
                   startup_ping, faulted>>

\* app.py:98-103: redis_client.info('server')
InfoServer(t) ==
    LET th == threads[t]
        raised == ~reachable
        calls == Append(th.calls, Call("INFO", raised))
        info == IF raised THEN th.redis_info
                ELSE [connected |-> th.redis_info.connected,
                      host |-> th.redis_info.host,
                      port |-> th.redis_info.port,
                      passwordConfigured |-> th.redis_info.passwordConfigured,
                      version |-> RedisServerInfo.redis_version,
                      uptime_days |-> RedisServerInfo.uptime_in_days]
    IN /\ th.pc = "info_server"
       /\ threads' = [threads EXCEPT ![t].pc = InfoNext("info_server", raised),
                                     ![t].calls = calls,
                                     ![t].redis_info = info]
       /\ faulted' = (faulted \/ raised)
       /\ UNCHANGED <<store, reachable, redis_connected, resp, init_store,
                      startup_ping, info_count>>

\* app.py:108 and app.py:109: one INCR, then on to what InfoNext says
InfoIncr(t, pc, key) ==
    LET th == threads[t]
        raised == ~reachable
        calls == Append(th.calls, Call("INCR", raised))
        next == InfoNext(pc, raised)
    IN /\ th.pc = pc
       /\ store' = IF raised THEN store ELSE RedisIncr(store, key)
       /\ IF next = "return"
          THEN Finish(t, "/api/info", InfoResponse(Hostname(t), th.redis_info), calls)
          ELSE /\ threads' = [threads EXCEPT ![t].pc = next, ![t].calls = calls]
               /\ UNCHANGED resp
       /\ faulted' = (faulted \/ raised)
       /\ UNCHANGED <<reachable, redis_connected, init_store, startup_ping, info_count>>

InfoIncrTotal(t) == InfoIncr(t, "info_incr_total", TotalKey)

InfoIncrBackend(t) == InfoIncr(t, "info_incr_backend", BackendKey(Hostname(t)))

\* As StatsRequest, without the test of the flag.
StatsRequestUnchecked(t) ==
    /\ threads[t].pc = "idle"
    /\ threads' = [threads EXCEPT ![t].pc = "stats_get_total"]
    /\ UNCHANGED <<store, reachable, redis_connected, resp, init_store,
                   startup_ping, info_count, faulted>>

\* app.py:123-130: up to the first Redis call, or the disconnected payload
StatsRequest(t) ==
    /\ threads[t].pc = "idle"
    /\ IF redis_connected
       THEN /\ threads' = [threads EXCEPT ![t].pc = "stats_get_total"]
            /\ UNCHANGED resp
       ELSE Finish(t, "/api/stats", StatsDisconnected, <<>>)
    /\ UNCHANGED <<store, reachable, redis_connected, init_store,
                   startup_ping, info_count, faulted>>

\* x or '0'
OrZero(opt) == IF opt # Nil /\ opt[1] # <<>> THEN opt[1] ELSE Str(0)

\* app.py:133
StatsGetTotal(t) ==
    LET th == threads[t]
        raised == ~reachable
        calls == Append(th.calls, Call("GET", raised))
    IN /\ th.pc = "stats_get_total"
       /\ IF raised
          THEN Finish(t, "/api/stats", StatsError, calls)
          ELSE /\ threads' = [threads EXCEPT
                                 ![t].pc = "stats_keys",
                                 ![t].calls = calls,
                                 ![t].total_views = OrZero(RedisGet(store, TotalKey))]
               /\ UNCHANGED resp
       /\ faulted' = (faulted \/ raised)
       /\ UNCHANGED <<store, reachable, redis_connected, init_store,
                      startup_ping, info_count>>

\* app.py:136-138: the KEYS call; with no key the loop body never runs
StatsKeys(t) ==
    LET th == threads[t]
        raised == ~reachable
        calls == Append(th.calls, Call("KEYS", raised))
        backend_keys == RedisKeys(store)
    IN /\ th.pc = "stats_keys"
       /\ IF raised
          THEN Finish(t, "/api/stats", StatsError, calls)
          ELSE IF backend_keys = {}
          THEN Finish(t, "/api/stats", StatsResponse(th.total_views, <<>>), calls)
          ELSE /\ threads' = [threads EXCEPT ![t].pc = "stats_get_key",
                                             ![t].calls = calls,
                                             ![t].keys = backend_keys]
               /\ UNCHANGED resp
       /\ faulted' = (faulted \/ raised)
       /\ UNCHANGED <<store, reachable, redis_connected, init_store,
                      startup_ping, info_count>>

\* app.py:138-140: one turn of the loop (KEYS returns the keys in no set order)
StatsGetKey(t) ==
    LET th == threads[t]
        raised == ~reachable
        calls == Append(th.calls, Call("GET", raised))
    IN /\ th.pc = "stats_get_key"
       /\ \E key \in th.keys :
            LET backend_views == (StripPrefix(key) :> RedisGet(store, key))
                                     @@ th.backend_views
            IN IF raised
               THEN Finish(t, "/api/stats", StatsError, calls)
               ELSE IF th.keys = {key}
               THEN Finish(t, "/api/stats",
                           StatsResponse(th.total_views, backend_views), calls)
               ELSE /\ threads' = [threads EXCEPT ![t].calls = calls,
                                                  ![t].keys = th.keys \ {key},
                                                  ![t].backend_views = backend_views]
                    /\ UNCHANGED resp
       /\ faulted' = (faulted \/ raised)
       /\ UNCHANGED <<store, reachable, redis_connected, init_store,
                      startup_ping, info_count>>

\* The calls /api/pods makes: the service reads follow a list call that
\* returned, and the preview read follows an active read that returned.
PodsCalls(list_res, active_res, preview_res) ==
    <<ListCall(list_res)>>
    \o (IF list_res.raised THEN <<>>
        ELSE <<Call("read_active_service", active_res.raised)>>
             \o (IF active_res.raised THEN <<>>
                 ELSE <<Call("read_preview_service", preview_res.raised)>>))

PodsRequest(max, labelsets) ==
    /\ \E list_res \in ListResults(max), active_res \in ServiceResults(labelsets),
          preview_res \in ServiceResults(labelsets) :
          resp' = Respond("/api/pods", get_pods(list_res, active_res, preview_res),
                          PodsCalls(list_res, active_res, preview_res))
    /\ UNCHANGED <<store, reachable, redis_connected, threads, init_store,
                   startup_ping, info_count, faulted>>

ServiceCalls(active_res, preview_res) ==
    <<Call("read_active_service", active_res.raised)>>
    \o (IF active_res.raised THEN <<>>
        ELSE <<Call("read_preview_service", preview_res.raised)>>)

ServiceRequest(labelsets) ==
    /\ \E active_res \in ServiceResults(labelsets),
          preview_res \in ServiceResults(labelsets) :
          resp' = Respond("/api/service", get_service(active_res, preview_res),
                          ServiceCalls(active_res, preview_res))
    /\ UNCHANGED <<store, reachable, redis_connected, threads, init_store,
                   startup_ping, info_count, faulted>>

\* --------------------------------------------------------- specifications

EmptyStore == [k \in {} |-> Str(0)]

\* The store endpoints, handled by the threads T
StoreRequests(T) ==
    \/ HealthRequest
    \/ VersionRequest
    \/ \E t \in T : InfoRequest(t)
    \/ \E t \in T : InfoServer(t)
    \/ \E t \in T : InfoIncrTotal(t)
    \/ \E t \in T : InfoIncrBackend(t)
    \/ \E t \in T : StatsRequest(t)
    \/ \E t \in T : StatsGetTotal(t)
    \/ \E t \in T : StatsKeys(t)
    \/ \E t \in T : StatsGetKey(t)

\* SpecStore: requests to the store endpoints handled concurrently, from
\* any key space found at start.
Init == Boot(InitStores, BOOLEAN)

NextStore ==
    \/ SetReachable
    \/ StoreRequests(Threads)

SpecStore == Init /\ [][NextStore]_vars

\* SpecCluster: requests to the cluster endpoints, over every outcome of
\* the cluster calls.
InitCluster == Boot({EmptyStore}, {TRUE})

NextCluster ==
    \/ PodsRequest(MaxPods, LabelSets)
    \/ ServiceRequest(LabelSets)

SpecCluster == InitCluster /\ [][NextCluster]_vars

\* Spec: every endpoint, the requests handled one at a time, from an empty
\* key space; the pod lists are those of at most one pod, and a service
\* read raises, returns a service without selector or one selecting "h1".
InitAll == Boot({EmptyStore}, BOOLEAN)

Next ==
    \/ SetReachable
    \/ StoreRequests({"t1"})
    \/ PodsRequest(1, {AppLabels @@ (HashLabel :> "h1")})
    \/ ServiceRequest({AppLabels @@ (HashLabel :> "h1")})

Spec == InitAll /\ [][Next]_vars

\* ------------------------------------------------------------- properties

\* the integer a counter key stands for; 0 for an absent key
Val(s, k) == IF k \in DOMAIN s THEN Int10(s[k]) ELSE 0

PodsResponse == resp.endpoint = "/api/pods"
StatsResponded == resp.endpoint = "/api/stats"

\* the role section 4.3 of the specification gives a pod: the service hashes
\* are tested for None, not for truth
RoleByNonNull(active_hash, preview_hash, pod_hash) ==
    IF active_hash # Nil /\ pod_hash = active_hash[1] THEN "active"
    ELSE IF preview_hash # Nil /\ pod_hash = preview_hash[1] THEN "preview"
    ELSE "unknown"

\* C1: in every /api/pods response that lists pods, each pod's role is Active
\* when the active hash is non-null and equals the pod's hash, else Preview
\* when the preview hash is non-null and equals it, else Unknown - the empty
\* string counting as a hash like any other.
C1_RoleByNonNullHash ==
    (PodsResponse /\ "debug" \in DOMAIN resp.body) =>
        \A i \in 1..Len(resp.body.pods) :
            resp.body.pods[i].version =
                RoleByNonNull(resp.body.debug.active_hash,
                              resp.body.debug.preview_hash,
                              resp.body.pods[i].hash)

\* C2: in every /api/pods response, of either path, the summary's active,
\* preview and unknown counts add up to its total, and the total is the
\* number of entries of pods.
C2_SummaryAddsUp ==
    PodsResponse =>
        /\ resp.body.summary.active + resp.body.summary.preview
               + resp.body.summary.unknown = resp.body.summary.total
        /\ resp.body.summary.total = Len(resp.body.pods)

\* a response listing two pods, one active and one preview
C2_Witness ==
    /\ PodsResponse
    /\ resp.body.summary.active = 1
    /\ resp.body.summary.preview = 1
    /\ resp.body.summary.total = 2

AllThreadsBefore(pcs) == {t \in Threads : threads[t].pc \in pcs}

\* C3: while the flag is set and no store call has failed, total_views is its
\* initial value plus the number of /api/info requests that have made their
\* first INCR, and each backend_views:<hostname> is its initial value plus the
\* number of that host's requests that have made their second: with every
\* request finished, the initial values plus the requests served.
C3_NoLostIncrement ==
    (redis_connected /\ ~faulted) =>
        /\ Val(store, TotalKey) =
               Val(init_store, TotalKey) + Total(info_count)
               - Cardinality(AllThreadsBefore({"info_server", "info_incr_total"}))
        /\ \A h \in Hostnames :
               Val(store, BackendKey(h)) =
                   Val(init_store, BackendKey(h)) + info_count[h]
                   - Cardinality({t \in AllThreadsBefore({"info_server", "info_incr_total",
                                                         "info_incr_backend"}) :
                                      Hostname(t) = h})

\* two requests of two instances in flight together, both past the first
\* INCR, on a total_views that gains a digit
C3_Witness ==
    /\ redis_connected /\ ~faulted
    /\ \A t \in Threads : threads[t].pc = "info_incr_backend"
    /\ TotalKey \in DOMAIN init_store
    /\ store[TotalKey] = <<1, 1>>

\* C4: with the flag not set, /api/stats answers 200 with total_views 0, an
\* empty backend_views and an error field, having made no store call.
C4_StatsDisconnected ==
    (StatsResponded /\ ~redis_connected) =>
        /\ resp.status = 200 /\ resp.json
        /\ resp.body.total_views = 0
        /\ resp.body.backend_views = <<>>
        /\ "error" \in DOMAIN resp.body
        /\ resp.calls = <<>>

\* the disconnected answer, given while the store can be reached and holds views
C4_Witness ==
    /\ StatsResponded /\ ~redis_connected
    /\ reachable
    /\ TotalKey \in DOMAIN store

ZeroSummary == [total |-> 0, active |-> 0, preview |-> 0, unknown |-> 0]

\* C5: when the list call fails, /api/pods answers 200 with no pods, a summary
\* of zeros and an error field; and a response with an error field never
\* lists a pod.
C5_ListFailureFallback ==
    PodsResponse =>
        /\ resp.calls[1].raised =>
               /\ resp.status = 200 /\ resp.json
               /\ resp.body.pods = <<>>
               /\ resp.body.summary = ZeroSummary
               /\ "error" \in DOMAIN resp.body
        /\ "error" \in DOMAIN resp.body =>
               /\ resp.body.pods = <<>>
               /\ resp.body.summary = ZeroSummary

C5_Witness == PodsResponse /\ resp.calls[1].raised

\* C6: when a store read of /api/stats fails - the read of total_views, the
\* KEYS call or the read of a per-instance counter - the answer is 500 with an
\* error field, total_views 0 and an empty backend_views.
C6_StatsReadFailure ==
    (StatsResponded /\ AnyRaised(resp.calls)) =>
        /\ resp.status = 500 /\ resp.json
        /\ "error" \in DOMAIN resp.body
        /\ resp.body.total_views = 0
        /\ resp.body.backend_views = <<>>

\* the second per-instance read fails, after one has been aggregated
C6_Witness ==
    /\ StatsResponded
    /\ Len(resp.calls) = 4
    /\ resp.calls[4].raised

\* C7: every response is JSON; its status is 500 exactly when it is the
\* answer of /api/stats to a failed store read, and 200 otherwise.
C7_AlwaysJson ==
    resp.endpoint # "none" =>
        /\ resp.json
        /\ resp.status \in {200, 500}
        /\ resp.status = 500 <=> (StatsResponded /\ AnyRaised(resp.calls))

\* /api/info answered after each of its store calls failed
C7_Witness ==
    /\ resp.endpoint = "/api/info"
    /\ Len(resp.calls) = 2
    /\ \A i \in 1..Len(resp.calls) : resp.calls[i].raised

ServiceReadRaised ==
    \E i \in 2..Len(resp.calls) : resp.calls[i].raised

\* C8: when the list call returned and a service read failed, /api/pods
\* answers 200 without error field, both hashes are null, and every pod the
\* list returned is there with role Unknown.
C8_ServiceReadFailure ==
    (PodsResponse /\ ServiceReadRaised) =>
        /\ resp.status = 200 /\ resp.json
        /\ "error" \notin DOMAIN resp.body
        /\ resp.body.debug.active_hash = Nil
        /\ resp.body.debug.preview_hash = Nil
        /\ Len(resp.body.pods) = resp.calls[1].items
        /\ \A i \in 1..Len(resp.body.pods) : resp.body.pods[i].version = "unknown"

\* the active service read, the preview read failed, two pods listed
C8_Witness ==
    /\ PodsResponse
    /\ Len(resp.calls) = 3
    /\ ~resp.calls[2].raised /\ resp.calls[3].raised
    /\ Len(resp.body.pods) = 2
    /\ resp.body.pods[1].hash = "h1"

\* C9: from an empty key space, total_views is at least the sum of the
\* per-instance counters in every state.
C9_TotalCoversBackends ==
    init_store = EmptyStore =>
        Val(store, TotalKey) >=
            Total([h \in Hostnames |-> Val(store, BackendKey(h))])

\* a request whose first INCR succeeded and whose second failed
C9_Witness ==
    /\ init_store = EmptyStore
    /\ faulted
    /\ \A t \in Threads : threads[t].pc = "idle"
    /\ Val(store, TotalKey) = 2
    /\ Total([h \in Hostnames |-> Val(store, BackendKey(h))]) = 1

\* C10: the flag is the outcome of the start-up ping in every state;
\* /api/health reports it; and when the ping failed no thread has made a
\* store call, the key space is as it was at start, and /api/stats has
\* answered with the disconnected payload.
C10_FlagSetOnlyAtStartup ==
    /\ redis_connected = startup_ping
    /\ resp.endpoint = "/api/health" =>
           resp.body.redis = IF startup_ping THEN "connected" ELSE "disconnected"
    /\ ~startup_ping =>
           /\ store = init_store
           /\ \A t \in Threads : threads[t] = Idle
           /\ resp.endpoint \in {"/api/info", "/api/stats"} => resp.calls = <<>>
           /\ StatsResponded => resp.body.error = "Redis not connected"

\* the ping failed, the store is reachable now, and /api/info has answered
C10_Witness ==
    /\ ~startup_ping
    /\ reachable
    /\ resp.endpoint = "/api/info"
    /\ TotalKey \in DOMAIN store

====
